---- MODULE Spec2Model ----
(***************************************************************************)
(* A model of the agecache LRU/TTL cache (src/cache.go).                   *)
(*                                                                         *)
(* The recency list (container/list) is a sequence of entries, front       *)
(* first.  The index `items` maps a key to the entry its list element      *)
(* points to; the element itself is found in the list by the entry's key.  *)
(* Time is a discrete clock `now`; durations are small naturals.           *)
(* Every public operation holds cache.mutex for its whole body and is one  *)
(* action; the background sweep (deleteExpired) takes the lock once per    *)
(* key of its snapshot and is one action per key.                          *)
(***************************************************************************)
EXTENDS Integers, Sequences, FiniteSets, TLC

\* ---- bounds of the model ------------------------------------------------
Keys == {"a", "b", "c"}
TwoKeys == {"a", "b"}
Values == {"x", "y"}
OneValue == {"x"}
MaxCapacity == 3
MaxAgeBound == 1
MaxTime == 2
MaxSets == 3
MaxGets == 1
MaxSetsLRU == 4
MaxGetsLRU == 2
MaxJitterAge == 3
MaxSetsJitter == 2

\* goroutines: two callers and the sweeper started by New
Callers == {"g1", "g2"}
Sweeper == "sweeper"
Goroutines == Callers \cup {Sweeper}
Unlocked == "-"
\* a goroutine outside any call
Idle == [at |-> "idle", op |-> "-", arg |-> 0]

NoKey == "-"
NoValue == "-"
NeverSet == [value |-> NoValue, time |-> -1]
Capacities == 1..MaxCapacity
Durations == 0..MaxAgeBound

\* ExpirationType (iota)
PassiveExpration == 0
ActiveExpiration == 1

VARIABLES
    capacity, minAge, maxAge, expirationType,
    sweeperStarted,   \* New launched the goroutine that runs deleteExpired
    sets, gets, hits, misses, evictions,
    items, evictionList,
    now,          \* the wall clock read by time.Now / time.Since
    sweepKeys,    \* keys of the sweeper's snapshot not yet visited
    ret,          \* what the call made by the last step returned
    fired,        \* the callbacks the last step invoked, in order
    hist,         \* history: for each key, its last Set (value, time)
    mutex,        \* the goroutine that holds cache.mutex, or Unlocked
    pc            \* where each goroutine stands in the call it is making

config == <<capacity, minAge, maxAge, expirationType, sweeperStarted>>
stats == <<sets, gets, hits, misses, evictions>>
store == <<items, evictionList>>
threads == <<mutex, pc>>
vars == <<config, stats, store, now, sweepKeys, ret, fired, hist, threads>>

\* ---- container/list and cacheEntry --------------------------------------
cacheEntry(k, v, ts) == [key |-> k, value |-> v, timestamp |-> ts]

\* What a call returned: the boolean, the value, the error, a panic
Result(ok, v, err, panic) ==
    [call |-> TRUE, ok |-> ok, value |-> v, err |-> err, panic |-> panic]
\* The last step was no call (construction, a clock tick, a sweeper step)
NoCall == [call |-> FALSE, ok |-> FALSE, value |-> NoValue, err |-> FALSE, panic |-> FALSE]
Callback(cb, e) == [cb |-> cb, key |-> e.key, value |-> e.value]

HasElement(l, k) == \E i \in 1..Len(l) : l[i].key = k
IndexOf(l, k) == CHOOSE i \in 1..Len(l) : l[i].key = k
Element(l, k) == l[IndexOf(l, k)]
RemoveAt(l, i) == SubSeq(l, 1, i - 1) \o SubSeq(l, i + 1, Len(l))

\* list.Remove(e): a no-op when e is not an element of the list
ListRemove(l, k) == IF HasElement(l, k) THEN RemoveAt(l, IndexOf(l, k)) ELSE l
PushFront(l, e) == <<e>> \o l
\* mutant: the element keeps its place
MoveToFront_Stay(l, k) == l

MoveToFront(l, k) ==
    IF HasElement(l, k) THEN <<Element(l, k)>> \o RemoveAt(l, IndexOf(l, k)) ELSE l
\* mutant: the front (newest) element instead of the back
Back_Front(l) == l[1]

Back(l) == l[Len(l)]

RECURSIVE Reverse(_)
Reverse(s) == IF s = <<>> THEN <<>> ELSE Append(Reverse(Tail(s)), Head(s))

\* ---- internal primitives -------------------------------------------------
\* A cache record c carries the fields a primitive reads or writes:
\* evictionList, items, evictions, fired, ok (the primitive's return value).
Here == [evictionList |-> evictionList, items |-> items,
         evictions |-> evictions, fired |-> <<>>, ok |-> FALSE]

\* mutant: the entry stays in the index
deleteElement_KeepIndex(c, k) ==
    [c EXCEPT !.evictionList = ListRemove(c.evictionList, k)]

deleteElement(c, k) ==
    [c EXCEPT !.evictionList = ListRemove(c.evictionList, k),
              !.items = [j \in DOMAIN c.items \ {k} |-> c.items[j]]]

\* mutant: the eviction is not counted
evictOldest_NoCount(c) ==
    IF c.evictionList = <<>>
    THEN [c EXCEPT !.ok = FALSE]
    ELSE LET entry == Back(c.evictionList)
             d == deleteElement(c, entry.key)
         IN [d EXCEPT !.fired = Append(d.fired, Callback("OnEviction", entry)),
                      !.ok = TRUE]

evictOldest(c) ==
    IF c.evictionList = <<>>
    THEN [c EXCEPT !.ok = FALSE]
    ELSE LET entry == Back(c.evictionList)
             d == deleteElement([c EXCEPT !.evictions = c.evictions + 1], entry.key)
         IN [d EXCEPT !.fired = Append(d.fired, Callback("OnEviction", entry)),
                      !.ok = TRUE]

\* time.Since(entry.timestamp)
Since(ts) == now - ts

\* mutant: the bound n itself can be returned
Int63n_Inclusive(n) == 0..n

\* rand.Int63n(n) returns a value of 0..n-1 and panics when n <= 0
Int63n(n) == 0..(n - 1)
RandVals == IF minAge = maxAge THEN {0} ELSE Int63n(maxAge - minAge)
getTimestamp(randVal) == IF minAge = maxAge THEN now ELSE now - randVal

\* ---- construction --------------------------------------------------------
\* New panics on an invalid Config: Init ranges over the valid ones.
ValidConfig(cap, MaxAge, MinAge) ==
    /\ ~(cap <= 0)
    /\ ~(MaxAge < 0)
    /\ ~(MinAge < 0)
    /\ ~(MinAge > 0 /\ MinAge > MaxAge)

\* mutant: a zero MinAge is kept
defaultMinAge_KeepZero(MinAge, MaxAge) == MinAge

\* minAge := config.MinAge; if minAge == 0 { minAge = config.MaxAge }
defaultMinAge(MinAge, MaxAge) == IF MinAge = 0 THEN MaxAge ELSE MinAge

New(cap, MaxAge, MinAge, etype, ExpirationInterval) ==
    /\ capacity = cap
    /\ maxAge = MaxAge
    /\ minAge = defaultMinAge(MinAge, MaxAge)
    /\ expirationType = etype
    /\ LET interval == IF ExpirationInterval <= 0 THEN MaxAge ELSE ExpirationInterval
       IN sweeperStarted = (etype = ActiveExpiration /\ interval > 0)
    /\ sets = 0 /\ gets = 0 /\ hits = 0 /\ misses = 0 /\ evictions = 0
    /\ items = <<>>
    /\ evictionList = <<>>

\* The state New returns, for a Config of the given capacities and ages
Constructed(caps, ages) ==
    /\ \E cap \in caps, MaxAge \in ages, MinAge \in ages,
          etype \in {PassiveExpration, ActiveExpiration}, iv \in {0, 1} :
          /\ ValidConfig(cap, MaxAge, MinAge)
          /\ New(cap, MaxAge, MinAge, etype, iv)
    /\ now = 0
    /\ sweepKeys = {}
    /\ ret = NoCall
    /\ fired = <<>>
    /\ hist = [k \in Keys |-> NeverSet]
    /\ mutex = Unlocked
    /\ pc = [g \in Goroutines |-> Idle]

Init == Constructed(Capacities, Durations)

\* ---- public operations ---------------------------------------------------
\* mutant: the entry expires one tick early
unexpired_Strict(entry) == maxAge = 0 \/ Since(entry.timestamp) < maxAge

\* mutant: the entry expires one tick late
unexpired_Late(entry) == maxAge = 0 \/ Since(entry.timestamp) <= maxAge + 1

\* mutant: off by one
overCapacity_OffByOne(c) == Len(c.evictionList) > capacity + 1

\* Set: evict := cache.evictionList.Len() > cache.capacity
overCapacity(c) == Len(c.evictionList) > capacity

\* Get: cache.maxAge == 0 || time.Since(entry.timestamp) <= cache.maxAge
unexpired(entry) == maxAge = 0 \/ Since(entry.timestamp) <= maxAge

SetEntry(l, k, v, ts) ==
    [i \in 1..Len(l) |-> IF l[i].key = k THEN cacheEntry(k, v, ts) ELSE l[i]]

Set(key, value) ==
    /\ sets' = sets + 1
    /\ IF RandVals = {}
       THEN \* getTimestamp panics in rand.Int63n; the deferred Unlock runs
            /\ ret' = Result(FALSE, NoValue, FALSE, TRUE)
            /\ fired' = <<>>
            /\ UNCHANGED <<store, evictions>>
       ELSE \E randVal \in RandVals :
            LET timestamp == getTimestamp(randVal) IN
            IF key \in DOMAIN items
            THEN /\ evictionList' =
                        SetEntry(MoveToFront(evictionList, key), key, value, timestamp)
                 /\ items' = [items EXCEPT ![key] = cacheEntry(key, value, timestamp)]
                 /\ ret' = Result(FALSE, NoValue, FALSE, FALSE)
                 /\ fired' = <<>>
                 /\ UNCHANGED evictions
            ELSE LET entry == cacheEntry(key, value, timestamp)
                     pushed == [Here EXCEPT
                                  !.evictionList = PushFront(evictionList, entry),
                                  !.items = [j \in DOMAIN items \cup {key} |->
                                               IF j = key THEN entry ELSE items[j]]]
                     evict == overCapacity(pushed)
                     c == IF evict THEN evictOldest(pushed) ELSE pushed
                 IN /\ evictionList' = c.evictionList
                    /\ items' = c.items
                    /\ evictions' = c.evictions
                    /\ fired' = c.fired
                    /\ ret' = Result(evict, NoValue, FALSE, FALSE)
    /\ UNCHANGED <<config, gets, hits, misses, now, sweepKeys>>

\* mutant: a hit refreshes the timestamp (sliding expiration)
Get_Refresh(key) ==
    /\ gets' = gets + 1
    /\ IF key \in DOMAIN items
       THEN LET entry == items[key] IN
            IF unexpired(entry)
            THEN /\ evictionList' =
                        SetEntry(MoveToFront(evictionList, key), key, entry.value, now)
                 /\ items' = [items EXCEPT ![key] = cacheEntry(key, entry.value, now)]
                 /\ hits' = hits + 1
                 /\ ret' = Result(TRUE, entry.value, FALSE, FALSE)
                 /\ fired' = <<>>
                 /\ UNCHANGED misses
            ELSE LET c == deleteElement(Here, key) IN
                 /\ evictionList' = c.evictionList
                 /\ items' = c.items
                 /\ misses' = misses + 1
                 /\ fired' = <<Callback("OnExpiration", entry)>>
                 /\ ret' = Result(FALSE, NoValue, FALSE, FALSE)
                 /\ UNCHANGED hits
       ELSE /\ misses' = misses + 1
            /\ ret' = Result(FALSE, NoValue, FALSE, FALSE)
            /\ fired' = <<>>
            /\ UNCHANGED <<store, hits>>
    /\ UNCHANGED <<config, sets, evictions, now, sweepKeys>>

Get(key) ==
    /\ gets' = gets + 1
    /\ IF key \in DOMAIN items
       THEN LET entry == items[key] IN
            IF unexpired(entry)
            THEN /\ evictionList' = MoveToFront(evictionList, key)
                 /\ hits' = hits + 1
                 /\ ret' = Result(TRUE, entry.value, FALSE, FALSE)
                 /\ fired' = <<>>
                 /\ UNCHANGED <<items, misses>>
            ELSE LET c == deleteElement(Here, key) IN
                 /\ evictionList' = c.evictionList
                 /\ items' = c.items
                 /\ misses' = misses + 1
                 /\ fired' = <<Callback("OnExpiration", entry)>>
                 /\ ret' = Result(FALSE, NoValue, FALSE, FALSE)
                 /\ UNCHANGED hits
       ELSE /\ misses' = misses + 1
            /\ ret' = Result(FALSE, NoValue, FALSE, FALSE)
            /\ fired' = <<>>
            /\ UNCHANGED <<store, hits>>
    /\ UNCHANGED <<config, sets, evictions, now, sweepKeys>>

Has(key) ==
    /\ ret' = Result(key \in DOMAIN items, NoValue, FALSE, FALSE)
    /\ fired' = <<>>
    /\ UNCHANGED <<config, stats, store, now, sweepKeys, hist>>

\* mutant: Peek promotes the entry as Get does
Peek_Promote(key) ==
    /\ ret' = IF key \in DOMAIN items
              THEN Result(TRUE, items[key].value, FALSE, FALSE)
              ELSE Result(FALSE, NoValue, FALSE, FALSE)
    /\ fired' = <<>>
    /\ evictionList' = MoveToFront(evictionList, key)
    /\ UNCHANGED <<config, stats, items, now, sweepKeys, hist>>

Peek(key) ==
    /\ ret' = IF key \in DOMAIN items
              THEN Result(TRUE, items[key].value, FALSE, FALSE)
              ELSE Result(FALSE, NoValue, FALSE, FALSE)
    /\ fired' = <<>>
    /\ UNCHANGED <<config, stats, store, now, sweepKeys, hist>>

\* mutant: Remove reports the removal as an eviction
Remove_Evict(key) ==
    /\ IF key \in DOMAIN items
       THEN LET c == deleteElement(Here, key) IN
            /\ evictionList' = c.evictionList
            /\ items' = c.items
            /\ fired' = <<Callback("OnEviction", items[key])>>
            /\ ret' = Result(TRUE, NoValue, FALSE, FALSE)
       ELSE /\ ret' = Result(FALSE, NoValue, FALSE, FALSE)
            /\ fired' = <<>>
            /\ UNCHANGED store
    /\ UNCHANGED <<config, stats, now, sweepKeys>>

Remove(key) ==
    /\ IF key \in DOMAIN items
       THEN LET c == deleteElement(Here, key) IN
            /\ evictionList' = c.evictionList
            /\ items' = c.items
            /\ ret' = Result(TRUE, NoValue, FALSE, FALSE)
       ELSE /\ ret' = Result(FALSE, NoValue, FALSE, FALSE)
            /\ UNCHANGED store
    /\ fired' = <<>>
    /\ UNCHANGED <<config, stats, now, sweepKeys>>

EvictOldest ==
    /\ LET c == evictOldest(Here) IN
          /\ evictionList' = c.evictionList
          /\ items' = c.items
          /\ evictions' = c.evictions
          /\ fired' = c.fired
          /\ ret' = Result(c.ok, NoValue, FALSE, FALSE)
    /\ UNCHANGED <<config, sets, gets, hits, misses, now, sweepKeys, hist>>

Len_ == Len(evictionList)

\* mutant: the loop deletes nothing
ClearLoop_Skip(c, ks) == c

\* for _, val := range cache.items { cache.deleteElement(val) }
RECURSIVE ClearLoop(_, _)
ClearLoop(c, ks) ==
    IF ks = {} THEN c
    ELSE LET k == CHOOSE j \in ks : TRUE
         IN ClearLoop(deleteElement(c, k), ks \ {k})

Clear ==
    /\ LET c == ClearLoop(Here, DOMAIN items) IN
          /\ items' = c.items
          /\ evictionList' = <<>>      \* evictionList.Init()
    /\ ret' = Result(FALSE, NoValue, FALSE, FALSE)
    /\ fired' = <<>>
    /\ UNCHANGED <<config, stats, now, sweepKeys, hist>>

Keys_ == DOMAIN items

OrderedKeys == [i \in 1..Len(evictionList) |-> Reverse(evictionList)[i].key]

Stats == [Capacity |-> capacity, Count |-> Len(evictionList), Sets |-> sets,
          Gets |-> gets, Hits |-> hits, Misses |-> misses, Evictions |-> evictions]

\* for i := 0; i < c-n; i++ { if !cache.evictOldest() { break } }
RECURSIVE ResizeLoop(_, _, _)
ResizeLoop(c, i, bound) ==
    IF ~(i < bound) THEN c
    ELSE LET r == evictOldest(c)
         IN IF ~r.ok THEN r ELSE ResizeLoop(r, i + 1, bound)

Resize(n) ==
    /\ IF n <= 0
       THEN /\ ret' = Result(FALSE, NoValue, TRUE, FALSE)
            /\ fired' = <<>>
            /\ UNCHANGED <<capacity, store, evictions>>
       ELSE LET c == ResizeLoop(Here, 0, capacity - n) IN
            /\ capacity' = n
            /\ evictionList' = c.evictionList
            /\ items' = c.items
            /\ evictions' = c.evictions
            /\ fired' = c.fired
            /\ ret' = Result(FALSE, NoValue, FALSE, FALSE)
    /\ UNCHANGED <<minAge, maxAge, expirationType, sweeperStarted,
                   sets, gets, hits, misses, now, sweepKeys, hist>>

\* mutant: only a negative duration is rejected
MaxAgeRejected_NegativeOnly(d) == d < 0

\* The validation of SetMaxAge / SetMinAge (made before the lock is taken)
MaxAgeRejected(d) == d < 0 \/ d < minAge
MinAgeRejected(d) == d < 0 \/ d > maxAge

\* A SetMaxAge call that no other reconfiguration overlaps
SetMaxAge(d) ==
    /\ IF MaxAgeRejected(d)
       THEN /\ ret' = Result(FALSE, NoValue, TRUE, FALSE)
            /\ UNCHANGED maxAge
       ELSE /\ maxAge' = d
            /\ ret' = Result(FALSE, NoValue, FALSE, FALSE)
    /\ fired' = <<>>
    /\ UNCHANGED <<capacity, minAge, expirationType, sweeperStarted,
                   stats, store, now, sweepKeys, hist>>

\* A SetMinAge call that no other reconfiguration overlaps
SetMinAge(d) ==
    /\ IF MinAgeRejected(d)
       THEN /\ ret' = Result(FALSE, NoValue, TRUE, FALSE)
            /\ UNCHANGED minAge
       ELSE /\ minAge' = (IF d = 0 THEN maxAge ELSE d)
            /\ ret' = Result(FALSE, NoValue, FALSE, FALSE)
    /\ fired' = <<>>
    /\ UNCHANGED <<capacity, maxAge, expirationType, sweeperStarted,
                   stats, store, now, sweepKeys, hist>>

\* SetMaxAge / SetMinAge as a goroutine g runs them beside other goroutines:
\* the validation reads cache.minAge / cache.maxAge before cache.mutex is
\* taken, and the write follows under the lock.
SetMaxAgeValidate(g, d) ==
    /\ pc[g] = Idle
    /\ IF MaxAgeRejected(d)
       THEN /\ ret' = Result(FALSE, NoValue, TRUE, FALSE)
            /\ fired' = <<>>
            /\ UNCHANGED pc
       ELSE /\ pc' = [pc EXCEPT ![g] = [at |-> "lock", op |-> "SetMaxAge", arg |-> d]]
            /\ UNCHANGED <<ret, fired>>
    /\ UNCHANGED <<config, stats, store, now, sweepKeys, hist, mutex>>

SetMaxAgeWrite(g) ==
    /\ pc[g].at = "lock" /\ pc[g].op = "SetMaxAge"
    /\ mutex = Unlocked
    /\ maxAge' = pc[g].arg
    /\ ret' = Result(FALSE, NoValue, FALSE, FALSE)
    /\ fired' = <<>>
    /\ pc' = [pc EXCEPT ![g] = Idle]
    /\ UNCHANGED <<capacity, minAge, expirationType, sweeperStarted,
                   stats, store, now, sweepKeys, hist, mutex>>

SetMinAgeValidate(g, d) ==
    /\ pc[g] = Idle
    /\ IF MinAgeRejected(d)
       THEN /\ ret' = Result(FALSE, NoValue, TRUE, FALSE)
            /\ fired' = <<>>
            /\ UNCHANGED pc
       ELSE /\ pc' = [pc EXCEPT ![g] = [at |-> "lock", op |-> "SetMinAge", arg |-> d]]
            /\ UNCHANGED <<ret, fired>>
    /\ UNCHANGED <<config, stats, store, now, sweepKeys, hist, mutex>>

SetMinAgeWrite(g) ==
    /\ pc[g].at = "lock" /\ pc[g].op = "SetMinAge"
    /\ mutex = Unlocked
    /\ minAge' = (IF pc[g].arg = 0 THEN maxAge ELSE pc[g].arg)
    /\ ret' = Result(FALSE, NoValue, FALSE, FALSE)
    /\ fired' = <<>>
    /\ pc' = [pc EXCEPT ![g] = Idle]
    /\ UNCHANGED <<capacity, maxAge, expirationType, sweeperStarted,
                   stats, store, now, sweepKeys, hist, mutex>>

\* ---- the lock and the callbacks ---------------------------------------------
\* A goroutine calls an operation: it waits in cache.mutex.Lock()
Invoke(g) ==
    /\ pc[g] = Idle
    /\ pc' = [pc EXCEPT ![g].at = "lock"]
    /\ UNCHANGED <<config, stats, store, now, sweepKeys, ret, fired, hist, mutex>>

\* The goroutine g got the lock and ran the body of an operation in this
\* step.  A body that invokes onEviction / onExpiration does so before it
\* returns, that is before the deferred Unlock: g is then inside the callback
\* and holds the lock; otherwise the call has returned and the lock is free.
Locked(g) ==
    /\ mutex = Unlocked
    /\ IF fired' # <<>>
       THEN /\ mutex' = g
            /\ pc' = [pc EXCEPT ![g].at = "callback"]
       ELSE /\ mutex' = Unlocked
            /\ pc' = [pc EXCEPT ![g] = Idle]

\* The callback returns, then the operation: the deferred Unlock runs
CallbackReturns(g) ==
    /\ pc[g].at = "callback"
    /\ mutex' = Unlocked
    /\ pc' = [pc EXCEPT ![g] = Idle]
    /\ UNCHANGED <<config, stats, store, now, sweepKeys, ret, fired, hist>>

\* The callback calls an operation of the same cache: the goroutine waits in
\* cache.mutex.Lock() / RLock(), which is not reentrant
CallbackCalls(g) ==
    /\ pc[g].at = "callback"
    /\ pc' = [pc EXCEPT ![g].at = "relock"]
    /\ UNCHANGED <<config, stats, store, now, sweepKeys, ret, fired, hist, mutex>>

\* ---- the background sweeper ----------------------------------------------
\* A tick of time.Tick(interval): deleteExpired snapshots cache.Keys()
SweepStart ==
    /\ sweeperStarted
    /\ sweepKeys = {}
    /\ items # <<>>
    /\ sweepKeys' = Keys_
    /\ ret' = NoCall
    /\ fired' = <<>>
    /\ UNCHANGED <<config, stats, store, now, hist>>

\* mutant: the sweep deletes every key of its snapshot that is still present
SweepKey_NoCheck(key) ==
    /\ key \in sweepKeys
    /\ sweepKeys' = sweepKeys \ {key}
    /\ IF key \in DOMAIN items
       THEN LET c == deleteElement(Here, key) IN
            /\ evictionList' = c.evictionList
            /\ items' = c.items
            /\ fired' = <<Callback("OnExpiration", items[key])>>
       ELSE /\ fired' = <<>>
            /\ UNCHANGED store
    /\ ret' = NoCall
    /\ UNCHANGED <<config, stats, now, hist>>

\* One iteration of deleteExpired's loop, between Lock and Unlock.  Keys()
\* lists the keys in map order, so the next key is any key of the snapshot.
SweepKey(key) ==
    /\ key \in sweepKeys
    /\ sweepKeys' = sweepKeys \ {key}
    /\ IF key \in DOMAIN items
          /\ maxAge > 0 /\ Since(items[key].timestamp) > maxAge
       THEN LET c == deleteElement(Here, key) IN
            /\ evictionList' = c.evictionList
            /\ items' = c.items
            /\ fired' = <<Callback("OnExpiration", items[key])>>
       ELSE /\ fired' = <<>>
            /\ UNCHANGED store
    /\ ret' = NoCall
    /\ UNCHANGED <<config, stats, now, hist>>

\* ---- time ----------------------------------------------------------------
Tick ==
    /\ now' = now + 1
    /\ ret' = NoCall
    /\ fired' = <<>>
    /\ UNCHANGED <<config, stats, store, sweepKeys, hist>>

\* ---- history -------------------------------------------------------------
\* Set, Get and Remove leave hist to the specification.  SpecTTL and
\* SpecJitter keep in it, for each key, the value and the time of its last Set,
\* and forget them when a call takes the entry out (Remove, an eviction, a Get
\* that finds it expired); a removal by the sweeper is not recorded.  The
\* other specifications keep hist constant.
RecordCall(setKey, value) ==
    hist' = [k \in Keys |->
               IF k = setKey /\ ~ret'.panic THEN [value |-> value, time |-> now]
               ELSE IF k \in Keys_ /\ k \notin Keys_' THEN NeverSet
               ELSE hist[k]]

\* ---- specifications -----------------------------------------------------
\* The counters and the clock are unbounded in the program; each specification
\* stops issuing Sets, Gets and clock ticks at its bounds.

\* The whole cache: every operation, the sweeper and the clock.
Next ==
    \/ sets < MaxSets /\ \E key \in Keys, value \in OneValue :
            Set(key, value) /\ UNCHANGED <<hist, threads>>
    \/ gets < MaxGets /\ \E key \in Keys : Get(key) /\ UNCHANGED <<hist, threads>>
    \/ \E key \in Keys : Has(key) /\ UNCHANGED threads
    \/ \E key \in Keys : Peek(key) /\ UNCHANGED threads
    \/ \E key \in Keys : Remove(key) /\ UNCHANGED <<hist, threads>>
    \/ EvictOldest /\ UNCHANGED threads
    \/ Clear /\ UNCHANGED threads
    \/ \E n \in (-1)..MaxCapacity : Resize(n) /\ UNCHANGED threads
    \/ \E d \in (-1)..MaxAgeBound : SetMaxAge(d) /\ UNCHANGED threads
    \/ \E d \in (-1)..MaxAgeBound : SetMinAge(d) /\ UNCHANGED threads
    \/ SweepStart /\ UNCHANGED threads
    \/ \E key \in Keys : SweepKey(key) /\ UNCHANGED threads
    \/ now < MaxTime /\ Tick /\ UNCHANGED threads

Spec == Init /\ [][Next]_vars

\* The cache with expiration disabled (MaxAge = 0): the LRU policy alone.
InitLRU == Init /\ maxAge = 0 /\ expirationType = PassiveExpration

NextLRU ==
    \/ sets < MaxSetsLRU /\ \E key \in Keys, value \in Values :
            Set(key, value) /\ UNCHANGED <<hist, threads>>
    \/ gets < MaxGetsLRU /\ \E key \in Keys : Get(key) /\ UNCHANGED <<hist, threads>>
    \/ \E key \in Keys : Has(key) /\ UNCHANGED threads
    \/ \E key \in Keys : Peek(key) /\ UNCHANGED threads
    \/ \E key \in Keys : Remove(key) /\ UNCHANGED <<hist, threads>>
    \/ EvictOldest /\ UNCHANGED threads
    \/ Clear /\ UNCHANGED threads
    \/ \E n \in (-1)..MaxCapacity : Resize(n) /\ UNCHANGED threads

SpecLRU == InitLRU /\ [][NextLRU]_vars

\* Expiration on two keys: Set, the reads, the clock and the sweeper.
NextTTL ==
    \/ sets < MaxSets /\ \E key \in TwoKeys, value \in Values :
            Set(key, value) /\ RecordCall(key, value) /\ UNCHANGED threads
    \/ gets < MaxGets /\ \E key \in TwoKeys : Get(key) /\ RecordCall(NoKey, NoValue) /\ UNCHANGED threads
    \/ \E key \in TwoKeys : Has(key) /\ UNCHANGED threads
    \/ \E key \in TwoKeys : Peek(key) /\ UNCHANGED threads
    \/ \E key \in TwoKeys : Remove(key) /\ RecordCall(NoKey, NoValue) /\ UNCHANGED threads
    \/ \E d \in (-1)..MaxAgeBound : SetMaxAge(d) /\ UNCHANGED threads
    \/ \E d \in (-1)..MaxAgeBound : SetMinAge(d) /\ UNCHANGED threads
    \/ SweepStart /\ UNCHANGED threads
    \/ \E key \in TwoKeys : SweepKey(key) /\ UNCHANGED threads
    \/ now < MaxTime /\ Tick /\ UNCHANGED threads

SpecTTL == Init /\ [][NextTTL]_vars

\* Jitter: ages up to MaxJitterAge on a cache of capacity 2; Set, Get and the
\* clock, with no reconfiguration.
InitJitter == Constructed({2}, 0..MaxJitterAge)

NextJitter ==
    \/ sets < MaxSetsJitter /\ \E key \in TwoKeys, value \in OneValue :
            Set(key, value) /\ RecordCall(key, value) /\ UNCHANGED threads
    \/ gets < MaxGets /\ \E key \in TwoKeys : Get(key) /\ RecordCall(NoKey, NoValue) /\ UNCHANGED threads
    \/ now < MaxJitterAge + 1 /\ Tick /\ UNCHANGED threads

SpecJitter == InitJitter /\ [][NextJitter]_vars

\* The counters: every operation that changes the entries or a counter, the
\* sweeper and the clock, with room for two Gets.
NextStats ==
    \/ sets < MaxSets /\ \E key \in Keys, value \in OneValue :
            Set(key, value) /\ UNCHANGED <<hist, threads>>
    \/ gets < MaxGetsLRU /\ \E key \in Keys : Get(key) /\ UNCHANGED <<hist, threads>>
    \/ \E key \in Keys : Remove(key) /\ UNCHANGED <<hist, threads>>
    \/ EvictOldest /\ UNCHANGED threads
    \/ Clear /\ UNCHANGED threads
    \/ \E n \in (-1)..MaxCapacity : Resize(n) /\ UNCHANGED threads
    \/ SweepStart /\ UNCHANGED threads
    \/ \E key \in Keys : SweepKey(key) /\ UNCHANGED threads
    \/ now < MaxTime /\ Tick /\ UNCHANGED threads

SpecStats == Init /\ [][NextStats]_vars

\* Reconfiguration by two goroutines at once, and Set.
InitRace == Constructed({1}, 0..MaxJitterAge)

NextRace ==
    \/ \E g \in Callers, d \in (-1)..MaxJitterAge : SetMaxAgeValidate(g, d)
    \/ \E g \in Callers : SetMaxAgeWrite(g)
    \/ \E g \in Callers, d \in (-1)..MaxJitterAge : SetMinAgeValidate(g, d)
    \/ \E g \in Callers : SetMinAgeWrite(g)
    \/ sets < MaxSetsJitter /\ \E key \in TwoKeys, value \in OneValue :
            Set(key, value) /\ UNCHANGED <<hist, threads>>

SpecRace == InitRace /\ [][NextRace]_vars

\* Two callers and the sweeper contending for the lock of a cache of
\* capacity 1 whose callbacks may call back into the cache.
InitLock == Constructed({1}, Durations)

Waiting(g) == g \in Callers /\ pc[g].at \in {"lock", "relock"}

NextLock ==
    \/ \E g \in Callers : Invoke(g)
    \/ \E g \in Callers, key \in TwoKeys, value \in OneValue :
          /\ Waiting(g) /\ sets < MaxSetsJitter
          /\ Set(key, value) /\ Locked(g) /\ UNCHANGED hist
    \/ \E g \in Callers, key \in TwoKeys :
          /\ Waiting(g) /\ gets < MaxGets
          /\ Get(key) /\ Locked(g) /\ UNCHANGED hist
    \/ \E g \in Callers : Waiting(g) /\ EvictOldest /\ Locked(g)
    \/ \E g \in Goroutines : CallbackReturns(g)
    \/ \E g \in Goroutines : CallbackCalls(g)
    \/ mutex = Unlocked /\ SweepStart /\ UNCHANGED threads
    \/ \E key \in TwoKeys : pc[Sweeper] = Idle /\ SweepKey(key) /\ Locked(Sweeper)
    \/ now < MaxTime /\ Tick /\ UNCHANGED threads

\* what the scheduler owes a goroutine: to get the lock it waits for, and to
\* run on when its callback returns
Progress(g) ==
    \/ Waiting(g) /\ EvictOldest /\ Locked(g)
    \/ CallbackReturns(g)
    \/ \E key \in TwoKeys : g = Sweeper /\ pc[g] = Idle /\ SweepKey(key) /\ Locked(g)

SpecLock == /\ InitLock /\ [][NextLock]_vars
            /\ \A g \in Goroutines : SF_vars(Progress(g))

\* Active expiration left to itself: Set, SetMaxAge, the clock and the
\* sweeper, with no Get.  The ticker of time.Tick(interval) keeps firing and
\* the sweeper goroutine keeps running: weak fairness of its steps.
NextLive ==
    \/ sets < MaxSetsJitter /\ \E key \in TwoKeys, value \in OneValue :
            Set(key, value) /\ UNCHANGED <<hist, threads>>
    \/ \E d \in (-1)..MaxAgeBound : SetMaxAge(d) /\ UNCHANGED threads
    \/ SweepStart /\ UNCHANGED threads
    \/ \E key \in TwoKeys : SweepKey(key) /\ UNCHANGED threads
    \/ now < MaxTime /\ Tick /\ UNCHANGED threads

SpecLive == /\ Init /\ [][NextLive]_vars
            /\ WF_vars(SweepStart /\ UNCHANGED threads)
            /\ \A key \in TwoKeys : WF_vars(SweepKey(key) /\ UNCHANGED threads)

\* ---- properties ----------------------------------------------------------
ListKeys == {evictionList[i].key : i \in 1..Len(evictionList)}

\* C1: in every reachable state the index and the recency list hold the same
\* keys, each key at exactly one list position (the position the index points
\* to), and Len() equals the index size and the list length.
C1_IndexMatchesList ==
    /\ DOMAIN items = ListKeys
    /\ \A i, j \in 1..Len(evictionList) :
          evictionList[i].key = evictionList[j].key => i = j
    /\ \A i \in 1..Len(evictionList) :
          /\ evictionList[i].key \in DOMAIN items
          /\ items[evictionList[i].key] = evictionList[i]
    /\ Len_ = Cardinality(DOMAIN items)
    /\ Len_ = Len(evictionList)

\* C1 witness: the sweeper removed an expired entry of a cache that had
\* evicted before and still holds another entry.
C1_Witness ==
    /\ ~ret.call /\ Len(fired) = 1 /\ fired[1].cb = "OnExpiration"
    /\ evictions >= 1
    /\ Len_ >= 1

\* C2: between operations Len() never exceeds the current capacity.
C2_LenWithinCapacity == Len_ <= capacity

\* C2 witness: a Resize evicted two entries and left the cache full at the
\* new capacity.
C2_Witness ==
    /\ ret.call /\ Len(fired) = 2
    /\ Len_ = capacity

EvictionOf(k) == [cb |-> "OnEviction", key |-> k, value |-> items[k].value]
ExpirationOf(k) == [cb |-> "OnExpiration", key |-> k, value |-> items[k].value]
Without(s, k) == SelectSeq(s, LAMBDA x : x # k)
Restrict(s, S) == SelectSeq(s, LAMBDA x : x \in S)

C3_Post(key) ==
    IF key \notin Keys_ /\ Len_ = capacity
    THEN LET oldest == OrderedKeys[1] IN
         /\ ret'.ok
         /\ fired' = <<EvictionOf(oldest)>>
         /\ oldest # key
         /\ Keys_' = (Keys_ \ {oldest}) \cup {key}
         /\ OrderedKeys' = Tail(OrderedKeys) \o <<key>>
         /\ evictions' = evictions + 1
    ELSE /\ ~ret'.ok
         /\ fired' = <<>>
         /\ Keys_' = Keys_ \cup {key}
         /\ evictions' = evictions

\* C3: a Set of a new key at capacity removes exactly the first key of
\* OrderedKeys(), never the key being set, returns true and fires the
\* eviction callback once with that key and its value; any other Set returns
\* false, fires nothing and removes nothing.
C3_SetEvictsOldest ==
    [][\A key \in Keys, value \in Values : Set(key, value) => C3_Post(key)]_vars

\* C3 witness: a Set into a full cache of capacity 2 evicted an entry holding
\* "y" (only Set returns true with one eviction and leaves the cache full).
C3_Witness ==
    /\ ret.call /\ ret.ok /\ Len(fired) = 1 /\ fired[1].cb = "OnEviction"
    /\ fired[1].value = "y"
    /\ capacity = 2 /\ Len_ = capacity

C4_ListsEachKeyOnce ==
    /\ Len(OrderedKeys) = Cardinality(Keys_)
    /\ \A k \in Keys_ :
          Cardinality({i \in 1..Len(OrderedKeys) : OrderedKeys[i] = k}) = 1

C4_TouchStep ==
    /\ \A k \in Keys :
          Get(k) /\ ret'.ok => OrderedKeys' = Without(OrderedKeys, k) \o <<k>>
    /\ \A k \in Keys, v \in Values :
          Set(k, v) /\ ~ret'.panic =>
             OrderedKeys' = Restrict(Without(OrderedKeys, k) \o <<k>>, Keys_')
    /\ (/\ ~(\E k \in Keys : Get(k) /\ ret'.ok)
        /\ ~(\E k \in Keys, v \in Values : Set(k, v)))
       => OrderedKeys' = Restrict(OrderedKeys, Keys_')

\* C4: OrderedKeys() lists every live key exactly once, least recently
\* touched first: a Get that hits and a Set move their key to the end and keep
\* the relative order of the other keys, and no other step reorders keys.
C4_OrderedByTouch == []C4_ListsEachKeyOnce /\ [][C4_TouchStep]_vars

\* C4 witness: three keys each Set once, "a" before "b", and the Get hit of
\* the last step has left "a" behind "b" and "c".
C4_Witness ==
    /\ sets = 3 /\ hits = 1 /\ ret.call /\ ret.ok /\ ret.value \in Values
    /\ OrderedKeys = <<"b", "c", "a">>
    /\ items["a"].timestamp < items["b"].timestamp

C9_Post(n) ==
    LET k == IF Len_ > n THEN Len_ - n ELSE 0 IN
    /\ capacity' = n
    /\ ~ret'.err
    /\ fired' = [i \in 1..k |-> EvictionOf(OrderedKeys[i])]
    /\ evictions' = evictions + k
    /\ OrderedKeys' = SubSeq(OrderedKeys, k + 1, Len_)

\* C9: Resize(n) with n > 0 sets the capacity to n and evicts exactly
\* max(0, Len() - n) entries, oldest first, one eviction callback and one
\* evictions increment per entry.
C9_ResizeEvictsLenMinusN ==
    [][\A n \in 1..MaxCapacity : Resize(n) => C9_Post(n)]_vars

C5_Untouched ==
    /\ UNCHANGED <<config, stats, store, now, sweepKeys>>
    /\ OrderedKeys' = OrderedKeys
    /\ Stats' = Stats
    /\ fired' = <<>>

\* C5: Has and Peek change nothing of the cache and fire no callback, whether
\* or not the entry is past maxAge; Has reports presence and Peek returns the
\* stored value (the value of the key's last Set).
C5_ReadsChangeNothing ==
    [][\A k \in Keys :
          /\ Has(k) => C5_Untouched /\ ret'.ok = (k \in Keys_)
          /\ Peek(k) => /\ C5_Untouched
                        /\ ret'.ok = (k \in Keys_)
                        /\ k \in Keys_ => ret'.value = hist[k].value]_vars

\* C5 witness: a Peek (the only call to return a value while hits = 0) of the
\* single entry, which is past maxAge, returned its value.
C5_Witness ==
    /\ ret.call /\ ret.ok /\ ret.value \in Values /\ hits = 0
    /\ fired = <<>>
    /\ Len_ = 1
    /\ maxAge > 0 /\ now - evictionList[1].timestamp > maxAge
    /\ ret.value = evictionList[1].value

\* in the cache and not expired (expired: maxAge > 0 and now - timestamp > maxAge)
Fresh(k) == k \in Keys_ /\ ~(maxAge > 0 /\ now - items[k].timestamp > maxAge)

\* C6: Get(k) finds k exactly when k is in the cache and not expired, and then
\* returns the value of the last Set of k; a Set leaves its key fresh with the
\* value given, so that a Get right after it returns that value; a miss is a
\* plain found=false.
C6_GetReturnsLastSet ==
    [][/\ \A k \in Keys :
             Get(k) => /\ ret'.ok = Fresh(k)
                       /\ ret'.ok => ret'.value = hist[k].value
                       /\ ~ret'.err /\ ~ret'.panic
       /\ \A k \in Keys, v \in Values :
             Set(k, v) /\ ~ret'.panic => Fresh(k)' /\ items'[k].value = v]_vars

\* C6 witness: a Get hit returned "y" from an entry whose age is exactly maxAge.
C6_Witness ==
    /\ ret.call /\ ret.ok /\ ret.value = "y" /\ hits = 1
    /\ maxAge > 0
    /\ now - evictionList[1].timestamp = maxAge

SetLongAgo(k) ==
    /\ maxAge > 0 /\ minAge = maxAge
    /\ hist[k] # NeverSet
    /\ now - hist[k].time > maxAge
ExpirationOfLastSet(k) == [cb |-> "OnExpiration", key |-> k, value |-> hist[k].value]

\* C7 as stated: with maxAge = minAge = D > 0, in either expiration mode, a
\* Get(k) issued more than D after Set(k, v) (no call having taken k out
\* since) returns found=false, removes k and fires the expiration callback
\* exactly once with (k, v).
C7_GetFiresExpiration ==
    [][\A k \in Keys :
          Get(k) /\ SetLongAgo(k) =>
             /\ ~ret'.ok
             /\ k \notin Keys_'
             /\ fired' = <<ExpirationOfLastSet(k)>>]_vars

\* C7 amended: such a Get returns found=false and leaves k absent.  It fires
\* the expiration callback, once and with (k, v), when the entry is still in
\* the cache, which is always so without a sweeper; when the sweeper has
\* already removed the entry the Get fires nothing.  A Get never returns a
\* value Set more than maxAge ago.
C7_GetExpiresIfPresent ==
    [][\A k \in Keys :
          /\ Get(k) /\ SetLongAgo(k) =>
                /\ ~ret'.ok
                /\ k \notin Keys_'
                /\ fired' = IF k \in Keys_ THEN <<ExpirationOfLastSet(k)>> ELSE <<>>
                /\ ~sweeperStarted => k \in Keys_
          /\ Get(k) /\ ret'.ok /\ maxAge > 0 =>
                hist[k] # NeverSet /\ now - hist[k].time <= maxAge]_vars

\* C7 witness: with a sweeper running, a Get found its entry expired and fired
\* the expiration callback.
C7_Witness ==
    /\ ret.call /\ ~ret.ok /\ misses = 1
    /\ Len(fired) = 1 /\ fired[1].cb = "OnExpiration"
    /\ sweeperStarted /\ minAge = maxAge

\* the age fields are those New gives a Config with these ages
ConstructedWith(MaxAge, MinAge) ==
    maxAge = MaxAge /\ minAge = defaultMinAge(MinAge, MaxAge)
TimestampChoices == {getTimestamp(r) : r \in RandVals}

\* C8 as stated: constructed with MinAge = 0 and MaxAge = D > 0, Set may assign
\* any timestamp of (now - D, now].
C8_JitterWithZeroMinAge ==
    [][\A k \in Keys, v \in Values, D \in 1..MaxJitterAge :
          Set(k, v) /\ ConstructedWith(D, 0) =>
             TimestampChoices = (now - D + 1)..now]_vars

\* C8 amended: constructed with MinAge = 0 and MaxAge = D > 0, Set applies no
\* jitter: every timestamp is exactly now.  Jitter is applied only for
\* 0 < MinAge < MaxAge, the timestamp then lying in (now - (MaxAge - MinAge), now].
C8_NoJitterWithZeroMinAge ==
    [][\A k \in Keys, v \in Values :
          Set(k, v) =>
             /\ \A D \in 1..MaxJitterAge :
                   ConstructedWith(D, 0) => items'[k].timestamp = now
             /\ \A D \in 1..MaxJitterAge, m \in 1..MaxJitterAge :
                   m < D /\ ConstructedWith(D, m) =>
                      items'[k].timestamp \in (now - (D - m) + 1)..now]_vars

\* C8 witness: in a cache constructed with MaxAge = 3 and MinAge = 0, two
\* entries were Set at the same instant.
C8_Witness ==
    /\ ConstructedWith(3, 0)
    /\ ret.call /\ Len_ = 2
    /\ hist["a"].time = hist["b"].time
    /\ items["a"].timestamp = items["b"].timestamp

C10_Untouched ==
    /\ UNCHANGED <<config, stats, store, now, sweepKeys>>
    /\ fired' = <<>>

C11_Counters ==
    /\ gets = hits + misses
    /\ Stats.Count = Len_
    /\ Stats.Capacity = capacity
    /\ Stats.Sets = sets /\ Stats.Gets = gets /\ Stats.Hits = hits
    /\ Stats.Misses = misses /\ Stats.Evictions = evictions

C11_CountStep ==
    LET isSet == \E k \in Keys, v \in Values : Set(k, v)
        isGet == \E k \in Keys : Get(k)
        isLRU == isSet \/ EvictOldest \/ \E n \in (-1)..MaxCapacity : Resize(n)
        removed == Cardinality(Keys_ \ Keys_')
    IN /\ sets' = sets + (IF isSet THEN 1 ELSE 0)
       /\ gets' = gets + (IF isGet THEN 1 ELSE 0)
       /\ \A k \in Keys :
             Get(k) => /\ hits' = hits + (IF Fresh(k) THEN 1 ELSE 0)
                       /\ misses' = misses + (IF Fresh(k) THEN 0 ELSE 1)
                       /\ ret'.ok = Fresh(k)
       /\ ~isGet => hits' = hits /\ misses' = misses
       /\ evictions' = evictions + (IF isLRU THEN removed ELSE 0)

\* C11: the counters are exact: every Set adds one to sets and every Get one
\* to gets and one to hits (found) or misses (absent or expired), nothing else
\* changes them; evictions grows by the number of entries a Set, EvictOldest
\* or Resize removes and by nothing else (expiration, Remove, Clear);
\* gets = hits + misses, Stats().Count = Len() and Stats().Capacity is the
\* capacity; no counter decreases.
C11_StatsExact == []C11_Counters /\ [][C11_CountStep]_vars

\* C11 witness: capacity 2, Set(a), Set(b), Set(c), Get(a), Get(b) with no time
\* passing: the stated statistics, "a" evicted, "b" promoted by the hit.
C11_Witness ==
    /\ Stats = [Capacity |-> 2, Count |-> 2, Sets |-> 3, Gets |-> 2,
                Hits |-> 1, Misses |-> 1, Evictions |-> 1]
    /\ OrderedKeys = <<"c", "b">>
    /\ ret.call /\ ret.ok /\ now = 0

\* C12: after Clear the cache is empty (Len() = 0, Keys() and OrderedKeys()
\* empty, Has(k) false for every k); Clear fires no callback and leaves the
\* capacity, the ages and the five counters unchanged.
C12_ClearEmptiesSilently ==
    [][Clear => /\ Len_' = 0
                /\ Keys_' = {}
                /\ OrderedKeys' = <<>>
                /\ \A k \in Keys : ~(k \in DOMAIN items')
                /\ fired' = <<>>
                /\ UNCHANGED <<config, stats>>]_vars

\* C12 witness: a cache emptied at time 0 after two Sets, with no eviction,
\* no Get and a last call that returned no true.
C12_Witness ==
    /\ ret.call /\ ~ret.ok /\ ~ret.err
    /\ sets = 2 /\ gets = 0 /\ evictions = 0 /\ now = 0
    /\ capacity = 3 /\ Len_ = 0 /\ Keys_ = {}

\* C13: Remove(k) returns true exactly when k was in the cache and leaves k
\* absent; every other entry and the order of the remaining keys are
\* unchanged, no callback fires (also when the entry was expired) and no
\* counter changes.
C13_RemoveIsSilent ==
    [][\A k \in Keys :
          Remove(k) => /\ ret'.ok = (k \in Keys_)
                       /\ Keys_' = Keys_ \ {k}
                       /\ \A j \in Keys_' : items'[j] = items[j]
                       /\ OrderedKeys' = Without(OrderedKeys, k)
                       /\ fired' = <<>>
                       /\ UNCHANGED <<config, stats>>]_vars

\* C13 witness: of three entries the middle one of the order is gone, after a
\* call that returned true and fired nothing, and the two left are expired.
C13_Witness ==
    /\ ret.call /\ ret.ok /\ fired = <<>>
    /\ sets = 3 /\ evictions = 0 /\ gets = 0 /\ capacity = 3
    /\ OrderedKeys = <<"a", "c">>
    /\ maxAge > 0
    /\ \A k \in Keys_ : now - items[k].timestamp > maxAge

\* C14: SetMaxAge(0) returns nil and sets maxAge to 0 from every reachable
\* configuration, and with maxAge = 0 neither Get nor the sweeper treats an
\* entry as expired.
C14_ZeroMaxAgeDisablesExpiration ==
    [][/\ SetMaxAge(0) => ~ret'.err /\ maxAge' = 0
       /\ \A k \in Keys :
             /\ Get(k) /\ maxAge = 0 /\ k \in Keys_ => ret'.ok /\ fired' = <<>>
             /\ SweepKey(k) /\ maxAge = 0 => fired' = <<>> /\ UNCHANGED store]_vars

\* C16: in every reachable state 0 <= minAge <= maxAge, whatever the
\* interleaving of concurrent SetMaxAge and SetMinAge calls, and so no Set
\* hands a negative jitter range to the random source (which would panic).
C16_AgesStayOrdered ==
    /\ [](0 <= minAge /\ minAge <= maxAge)
    /\ [][\A k \in Keys, v \in Values : Set(k, v) => ~ret'.panic]_vars

\* C15: under fair scheduling every operation a caller invokes eventually
\* returns, also when a callback calls an operation of the same cache.
C15_EveryCallReturns ==
    \A g \in Callers : (pc[g].at = "lock") ~> (pc[g] = Idle)

\* expired: maxAge > 0 and now - timestamp > maxAge
Expired(k) == k \in Keys_ /\ maxAge > 0 /\ now - items[k].timestamp > maxAge

C17_Step ==
    /\ \A k \in Keys :
          SweepKey(k) =>
             /\ IF Expired(k)
                THEN /\ Keys_' = Keys_ \ {k}
                     /\ fired' = <<ExpirationOf(k)>>
                ELSE /\ UNCHANGED store
                     /\ fired' = <<>>
             /\ \A j \in Keys_' : items'[j] = items[j]
    /\ \A i \in 1..Len(fired') :
          fired'[i].cb = "OnExpiration" =>
             /\ Len(fired') = 1
             /\ Expired(fired'[i].key)
             /\ fired'[i] = ExpirationOf(fired'[i].key)
             /\ fired'[i].key \notin Keys_'

\* C17: however the sweep's per-key steps interleave with Set, Get and
\* Remove, a sweep step deletes its key only if the entry is expired at that
\* moment (an entry Set again since the snapshot and fresh stays), and every expiration
\* callback, of a Get or of the sweep, comes with the removal of the stored
\* entry it reports, so that no stored entry is reported twice.
C17_SweepDeletesOnlyExpired == [][C17_Step]_vars

\* C17 witness: the sweep has visited "a", whose entry was Set at the present
\* instant, and left it; the expired "b" of its snapshot is still to visit.
C17_Witness ==
    /\ ~ret.call /\ fired = <<>>
    /\ sweepKeys = {"b"} /\ Keys_ = {"a", "b"}
    /\ sets = 3 /\ now = 2
    /\ hist["a"].time = now /\ ~Expired("a") /\ Expired("b")

\* C18: in a cache constructed with Active expiration, an entry that is
\* expired (maxAge > 0, set at construction or by SetMaxAge) eventually stops
\* being an expired entry of the cache with no Get: the sweeper removes it,
\* unless it is Set again.
C18_SweeperRemovesExpired ==
    \A k \in TwoKeys :
       (expirationType = ActiveExpiration /\ Expired(k)) ~> ~Expired(k)

C19_Step ==
    /\ \A k \in Keys_ \cap Keys_' :
          items'[k].timestamp # items[k].timestamp => \E v \in Values : Set(k, v)
    /\ \A k \in Keys, v \in Values :
          Set(k, v) /\ ~ret'.panic =>
             /\ items'[k].timestamp \in TimestampChoices
             /\ sets' = sets + 1
             /\ UNCHANGED <<gets, hits, misses>>
    /\ \A k \in Keys :
          Get(k) \/ Peek(k) \/ Has(k) =>
             \A j \in Keys_' : j \in Keys_ /\ items'[j].timestamp = items[j].timestamp

\* C19: the timestamp of an entry changes only in a Set of its key; every Set,
\* also of an existing key with the same value, stores a fresh timestamp and
\* counts as a set and not as a get; Get, Peek and Has leave every timestamp
\* as it was, so a Get hit does not postpone the expiration.
C19_TimestampOnlyOnSet == [][C19_Step]_vars

\* C19 witness: "a" was Set twice with the same value, the second time at
\* time 1; a Get hit at time 2 (maxAge 1) returned it and left its timestamp 1.
C19_Witness ==
    /\ ret.call /\ ret.ok /\ ret.value = "x" /\ hits = 1
    /\ sets = 2 /\ Keys_ = {"a"}
    /\ maxAge = 1 /\ now = 2
    /\ items["a"].timestamp = 1

C20_Bounds ==
    \A k \in Keys_ :
       0 < minAge /\ minAge <= maxAge /\ hist[k] # NeverSet =>
          /\ now <= hist[k].time + minAge => ~Expired(k)
          /\ now > hist[k].time + maxAge => Expired(k)

C20_Step ==
    /\ \A k \in Keys, v \in Values :
          Set(k, v) /\ 0 < minAge /\ minAge <= maxAge =>
             /\ \E jitter \in 0..MaxJitterAge :
                   /\ items'[k].timestamp = now - jitter
                   /\ IF minAge = maxAge THEN jitter = 0 ELSE jitter < maxAge - minAge
             /\ TimestampChoices =
                   IF minAge = maxAge THEN {now}
                   ELSE {now - jitter : jitter \in 0..(maxAge - minAge - 1)}
    /\ \A k \in Keys_ :
          Get(k) /\ 0 < minAge /\ minAge <= maxAge /\ hist[k] # NeverSet =>
             /\ now <= hist[k].time + minAge => ret'.ok
             /\ now > hist[k].time + maxAge => ~ret'.ok

\* C20: with 0 < minAge <= maxAge unchanged, Set stores now - jitter with
\* jitter = 0 when minAge = maxAge and 0 <= jitter < maxAge - minAge otherwise,
\* for every value of the random source; an entry last Set at t is not expired
\* up to t + minAge and is expired after t + maxAge, for Get as well.
C20_ExpiresBetweenMinAndMax == []C20_Bounds /\ [][C20_Step]_vars

\* C20 witness: maxAge 3, minAge 1: an entry Set with the largest jitter (1)
\* is expired at t + maxAge, one tick before an entry without jitter.
C20_Witness ==
    /\ maxAge = 3 /\ minAge = 1
    /\ "a" \in Keys_
    /\ items["a"].timestamp = hist["a"].time - 1
    /\ now = hist["a"].time + maxAge
    /\ Expired("a")

====
